---- MODULE Spec2Model ----
(***************************************************************************)
(* Model of VectorLayerLoader (src/src/emodnet_viewer/utils/               *)
(* vector_loader.py): the catalogue of loaded layers, the two cache tiers  *)
(* (_gdf_cache = Tier A, _geojson_cache = Tier B), the eviction, the       *)
(* GeoJSON fast path, and the file-change detection and reload.            *)
(*                                                                         *)
(* The vector directory is the environment: every file has a presence flag *)
(* and a stamp.  A stamp stands for st_mtime and also identifies the       *)
(* content the file had when it was written (each write gives the file a   *)
(* new stamp), so "the data read from the file" is the stamp read.  What   *)
(* a file holds besides (whether it opens, the CRS it declares, the state  *)
(* and the box of each layer) is `content`, fixed when the loader starts.  *)
(***************************************************************************)
EXTENDS Integers, Sequences, FiniteSets, TLC

(***************************************************************************)
(* Sizes.  The source sets MAX_CACHE_SIZE = 50 and CACHE_EVICT_SIZE = 10   *)
(* (vector_loader.py:35-36); the model keeps the roles and the ordering    *)
(* CACHE_EVICT_SIZE < MAX_CACHE_SIZE and scales both down so that the      *)
(* caches fill and overflow within the explored state space.               *)
(***************************************************************************)
MAX_CACHE_SIZE == 3

CACHE_EVICT_SIZE == 2

\* at most this many writes/deletions/creations happen in the directory
MaxDiskOps == 2

\* at most this many file reads are started by the request threads
MaxReads == 4

(***************************************************************************)
(* The vector directory: one multi-layer .gpkg container with one layer    *)
(* more than Tier A can hold, and one single-layer .geojson file whose     *)
(* layer is named after the file stem (vector_loader.py:138).              *)
(***************************************************************************)
GpkgFiles == {"a.gpkg"}

GeojsonFiles == {"g.geojson"}

Files == GpkgFiles \cup GeojsonFiles

LayerPool == <<"l1", "l2", "l3", "l4", "l5", "l6">>

NumGpkgLayers == MAX_CACHE_SIZE + 1

\* the file's stem: Path.stem
Stem(f) == IF f = "g.geojson" THEN "g" ELSE "a"

\* layer.file_path.endswith('.geojson')
IsGeojson(f) == f \in GeojsonFiles

\* the layers a file holds, in the order the metadata pass lists them
LayerNames(f) ==
    IF IsGeojson(f) THEN <<Stem(f)>> ELSE SubSeq(LayerPool, 1, NumGpkgLayers)

\* discover_gpkg_files: gpkg_files + geojson_files (the order glob gives within
\* one format plays no part with one file of each)
DiscoverOrder == <<"a.gpkg", "g.geojson">>

(***************************************************************************)
(* simplify_tolerance: None or a number, in hundredths (1 is 0.01).        *)
(***************************************************************************)
None == [isNone |-> TRUE, val |-> 0]

Num(v) == [isNone |-> FALSE, val |-> v]

Tolerances == {None, Num(1)}

\* Python truthiness of simplify_tolerance
Truthy(t) == ~t.isNone /\ t.val # 0

\* `simplify_tolerance or 0`, the text after "simplify=" in the Tier-B key
SimplifyTag(t) == IF Truthy(t) THEN t.val ELSE 0

\* `simplify_tolerance and simplify_tolerance > 0`
WantsSimplify(t) == Truthy(t) /\ t.val > 0

VARIABLES
    disk,           \* [Files -> [exists, stamp]]: the vector directory
    diskOps,        \* number of directory changes so far
    loaded_layers,  \* self.loaded_layers: sequence of VectorLayer
    gdf_cache,      \* self._gdf_cache (Tier A): OrderedDict as sequence of [k, v]
    geojson_cache,  \* self._geojson_cache (Tier B): OrderedDict as sequence of [k, v]
    file_mtimes,    \* self._file_mtimes: [Files -> stamp], NoMtime when untracked
    ret,            \* what the last call returned
    loadedDir,      \* history: the directory as the last load_all_vector_layers saw it
    reloadStamp,    \* history: the files' stamps when reload_if_changed last reloaded
    lru,            \* history: the Tier-A keys, least recently requested first
    vector_dir,     \* self.vector_dir.exists()
    content,        \* [Files -> what the file holds]: readability, CRS, layers
    out,            \* what the last catalogue call (summary, bounds, discovery) returned
    reloading,      \* the position of the thread inside reload_if_changed
    inflight,       \* per request thread: the get_vector_layer_geojson call it is in
    reads           \* number of file reads the request threads have started

vars == <<disk, diskOps, loaded_layers, gdf_cache, geojson_cache, file_mtimes, ret,
          loadedDir, reloadStamp, lru, vector_dir, content, out, reloading, inflight, reads>>

\* what the calls of the sequential interface leave alone
extras == <<vector_dir, content, out, reloading, inflight, reads>>

loader == <<loaded_layers, gdf_cache, geojson_cache, file_mtimes, ret,
            loadedDir, reloadStamp, lru, out, reloading, inflight, reads>>

\* dict.get(...) is None
NoMtime == 0

(***************************************************************************)
(* OrderedDict operations on a sequence of [k |-> key, v |-> value].       *)
(***************************************************************************)
Keys(od) == {od[i].k : i \in 1..Len(od)}

Has(od, key) == key \in Keys(od)

IndexOf(od, key) == CHOOSE i \in 1..Len(od) : od[i].k = key

Lookup(od, key) == od[IndexOf(od, key)].v

RemoveAt(od, i) == SubSeq(od, 1, i - 1) \o SubSeq(od, i + 1, Len(od))

\* od[key] = value: in place when the key exists, appended otherwise
Put(od, key, value) ==
    IF Has(od, key)
    THEN [od EXCEPT ![IndexOf(od, key)].v = value]
    ELSE Append(od, [k |-> key, v |-> value])

\* od.move_to_end(key)
MoveToEnd(od, key) ==
    LET i == IndexOf(od, key) IN Append(RemoveAt(od, i), od[i])

(***************************************************************************)
(* VectorLayer and the cache keys.                                         *)
(***************************************************************************)
\* the content with stamp s has FeatureCount(s) features
FeatureCount(s) == s

(***************************************************************************)
(* What a file holds.  A file can be opened or not; it declares a CRS or   *)
(* none; each of its layers can be read or not, has features or none, and  *)
(* has a box: the extent of its geometries in the coordinates stored in    *)
(* the file.  Coordinates are in halves of a degree, so that the midpoint  *)
(* of two of them is a whole number.                                       *)
(***************************************************************************)
WGS84 == "EPSG:4326"

\* the CRS a file can declare; "none": it declares none
Crs == {WGS84, "EPSG:3857", "none"}

\* a layer opens and has features; cannot be opened; opens but its features
\* cannot be read; has no feature
LayerStates == {"ok", "corrupt", "unreadable", "empty"}

Boxes == {<<0, 0, 2, 2>>, <<4, 4, 6, 6>>, <<-2, -2, 0, 0>>, <<-4, 2, 8, 4>>}

DefaultBox(name) ==
    CASE name = "l1" -> <<0, 0, 2, 2>>
      [] name = "l2" -> <<4, 4, 6, 6>>
      [] name = "l3" -> <<-2, -2, 0, 0>>
      [] OTHER       -> <<-4, 2, 8, 4>>

NamesOf(f) == {LayerNames(f)[i] : i \in 1..Len(LayerNames(f))}

\* every file opens, declares EPSG:4326 and holds readable layers
Healthy ==
    [f \in Files |->
        [opens |-> TRUE, crs |-> WGS84,
         layers |-> [n \in NamesOf(f) |-> [state |-> "ok", box |-> DefaultBox(n)]]]]

\* a coordinate in the projected CRS is this many times the one in degrees
UnitsPerDegree == 2

\* to_crs("EPSG:4326") on coordinates stored in the CRS `from`
ToWgs84(box, from) ==
    IF from = "EPSG:3857" THEN [i \in 1..4 |-> box[i] \div UnitsPerDegree] ELSE box

\* `gdf.crs and gdf.crs.to_epsg() != 4326`
NeedsReprojection(crs) == crs # "none" /\ crs # WGS84

\* the bounds a descriptor gets: gdf.total_bounds after the reprojection for
\* a .gpkg layer (lines 288-297), the bounds of the raw coordinates for a
\* .geojson file (lines 126-132, 207)
LayerBounds(f, name) ==
    LET box == content[f].layers[name].box IN
    IF ~IsGeojson(f) /\ NeedsReprojection(content[f].crs)
    THEN ToWgs84(box, content[f].crs)
    ELSE box

(***************************************************************************)
(* Names as texts: sequences of characters, for the string operations of   *)
(* _create_display_name (lower, replace, title).                           *)
(***************************************************************************)
LowerCase == <<"a", "b", "g", "l">>

UpperCase == <<"A", "B", "G", "L">>

IsUpper(c) == \E i \in 1..Len(UpperCase) : UpperCase[i] = c

IsLower(c) == \E i \in 1..Len(LowerCase) : LowerCase[i] = c

\* a cased character; digits, "_", " " and "-" are not
IsLetter(c) == IsUpper(c) \/ IsLower(c)

LowerChar(c) ==
    IF IsUpper(c) THEN LowerCase[CHOOSE i \in 1..Len(UpperCase) : UpperCase[i] = c] ELSE c

UpperChar(c) ==
    IF IsLower(c) THEN UpperCase[CHOOSE i \in 1..Len(LowerCase) : LowerCase[i] = c] ELSE c

\* str.lower()
Lower(text) == [i \in 1..Len(text) |-> LowerChar(text[i])]

\* str.replace("_", " ")
ReplaceUnderscores(text) == [i \in 1..Len(text) |-> IF text[i] = "_" THEN " " ELSE text[i]]

\* str.title(): a letter is upper case after a character that is no letter
\* (and at the start), lower case after a letter
Title(text) ==
    [i \in 1..Len(text) |->
        IF i = 1 \/ ~IsLetter(text[i - 1]) THEN UpperChar(text[i]) ELSE LowerChar(text[i])]

\* the characters of the names of the directory
Spell(name) ==
    CASE name = "a"  -> <<"a">>
      [] name = "g"  -> <<"g">>
      [] name = "l1" -> <<"l", "1">>
      [] name = "l2" -> <<"l", "2">>
      [] name = "l3" -> <<"l", "3">>
      [] name = "l4" -> <<"l", "4">>
      [] name = "l5" -> <<"l", "5">>
      [] name = "l6" -> <<"l", "6">>

\* _create_display_name (lines 369-378)
create_display_name(file_stem, layer_name) ==
    IF Lower(layer_name) = Lower(file_stem)
    THEN Title(ReplaceUnderscores(file_stem))
    ELSE Title(ReplaceUnderscores(file_stem)) \o <<" ", "-", " ">>
            \o Title(ReplaceUnderscores(layer_name))

\* gdf.geometry.geom_type.iloc[0]: the files hold polygons
GeometryType(f, name) == "Polygon"

\* self.default_styles.get(geom_type, self.default_styles["Polygon"]), the
\* style named by its fillColor or color
default_styles(geom_type) ==
    CASE geom_type \in {"Polygon", "MultiPolygon"}       -> [fillColor |-> "#20B2AA"]
      [] geom_type \in {"LineString", "MultiLineString"} -> [color |-> "#40E0D0"]
      [] geom_type \in {"Point", "MultiPoint"}           -> [color |-> "#48D1CC"]
      [] OTHER                                           -> [fillColor |-> "#20B2AA"]

\* a descriptor whose crs is the one the file declares
DeclaredCrs(f) == content[f].crs

\* crs="EPSG:4326" (lines 313 and 220)
DescriptorCrs(f) == WGS84

\* line 300 (and 210): the display name of every layer of the directory
DisplayNames ==
    [f \in Files |->
        [name \in NamesOf(f) |-> create_display_name(Spell(Stem(f)), Spell(name))]]

VectorLayer(f, name, s) ==
    [file_path |-> f, layer_name |-> name,
     display_name |-> DisplayNames[f][name],
     geometry_type |-> GeometryType(f, name),
     feature_count |-> FeatureCount(s),
     bounds |-> LayerBounds(f, name), crs |-> DescriptorCrs(f),
     source_file |-> f,
     style |-> default_styles(GeometryType(f, name))]

\* cache_key = f"{layer.file_path}:{layer.layer_name}"
CacheKey(layer) == <<layer.file_path, layer.layer_name>>

\* geojson_cache_key = f"{cache_key}:simplify={simplify_tolerance or 0}"
GeojsonCacheKey(layer, t) == <<layer.file_path, layer.layer_name, SimplifyTag(t)>>

\* the source_path+layer_name prefix of a Tier-B key
KeyPrefix(key) == <<key[1], key[2]>>

(***************************************************************************)
(* Values.  A GeoDataFrame is the content read (the stamp of the file when *)
(* it was read) and the tolerance its geometries were simplified with (0:  *)
(* not simplified).  A GeoJSON dict adds the metadata block.               *)
(***************************************************************************)
NoLayer ==
    [file_path |-> "", layer_name |-> "", display_name |-> <<>>, geometry_type |-> "",
     feature_count |-> 0, bounds |-> <<0, 0, 0, 0>>, crs |-> "", source_file |-> "",
     style |-> [fillColor |-> ""]]

\* gpd.read_file(layer.file_path, layer=layer.layer_name) / json.load(f): the
\* coordinates are in the CRS the file declares
ReadFile(f) == [data |-> disk[f].stamp, simplified |-> 0, crs |-> content[f].crs]

\* lines 520-521: gdf.to_crs("EPSG:4326") when a CRS other than it is declared
EnsureWgs84(gdf) == IF NeedsReprojection(gdf.crs) THEN [gdf EXCEPT !.crs = WGS84] ELSE gdf

\* gdf.geometry.simplify(tolerance=simplify_tolerance)
Simplify(gdf, t) == [gdf EXCEPT !.simplified = t.val]

\* the keys of the metadata block (lines 529-537, 461-469, 480-488)
MetadataFields ==
    {"layer_name", "display_name", "geometry_type", "feature_count", "bounds",
     "source_file", "style"}

\* the metadata block of a layer
Metadata(layer) == [x \in MetadataFields |-> layer[x]]

\* json.loads(gdf.to_json()) followed by geojson["metadata"] = {...}
WithMetadata(gdf, layer) ==
    [data |-> gdf.data, simplified |-> gdf.simplified, crs |-> gdf.crs,
     metadata |-> Metadata(layer)]

\* the raw GeoJSON document as json.load returns it: no metadata block yet
RawGeojson(f) == WithMetadata(ReadFile(f), NoLayer)

NoValue == WithMetadata([data |-> 0, simplified |-> 0, crs |-> ""], NoLayer)

(***************************************************************************)
(* discover_gpkg_files: the recognized files present in the directory.     *)
(***************************************************************************)
\* a discovery that lists only the files the loader has not recorded yet
UntrackedFiles ==
    SelectSeq(DiscoverOrder, LAMBDA f : disk[f].exists /\ file_mtimes[f] = NoMtime)

\* lines 86-88: no directory, no files; lines 91-94: the two globs
discover_gpkg_files ==
    IF ~vector_dir THEN <<>> ELSE SelectSeq(DiscoverOrder, LAMBDA f : disk[f].exists)

(***************************************************************************)
(* load_all_vector_layers, one file at a time: record the mtime, then load *)
(* every layer the metadata pass lists; load_geojson_layer also stores the *)
(* raw document in Tier B under the cache_key (no "simplify=" part).       *)
(***************************************************************************)
\* the file and the layer can be opened
Readable(f, name) ==
    disk[f].exists /\ content[f].opens /\ content[f].layers[name].state # "corrupt"

\* the metadata pass that gives up on the file at the first layer it cannot
\* open
LayerInfosAborting(f) ==
    IF \A i \in 1..Len(LayerNames(f)) : Readable(f, LayerNames(f)[i])
    THEN LayerNames(f)
    ELSE <<>>

\* get_layer_info_from_gpkg / get_layer_info_from_geojson: the layers whose
\* metadata could be read.  A file that does not open gives [] (lines 183-185,
\* 148-150); a layer that does not open is logged and passed over (lines
\* 177-179); a GeoJSON document has one layer, with or without features.
LayerInfos(f) ==
    IF ~(disk[f].exists /\ content[f].opens)
    THEN <<>>
    ELSE SelectSeq(LayerNames(f), LAMBDA n : Readable(f, n))

\* the features of the layer can be read
HasData(f, name) == Readable(f, name) /\ content[f].layers[name].state # "unreadable"

\* what a loading function hands back: a VectorLayer or None; it raises
\* nothing
Loaded(layer) == [raised |-> FALSE, isNone |-> FALSE, layer |-> layer]

ReturnedNone == [raised |-> FALSE, isNone |-> TRUE, layer |-> NoLayer]

\* lines 321-323 and 232-234: except Exception: log, return None
CaughtReturnsNone == ReturnedNone

\* load_vector_layer (lines 236-323) and load_geojson_layer (lines 187-234)
load_vector_layer(f, name) ==
    IF ~HasData(f, name)
    THEN CaughtReturnsNone
    ELSE IF content[f].layers[name].state = "empty"
    THEN ReturnedNone
    ELSE Loaded(VectorLayer(f, name, disk[f].stamp))

\* lines 409-419: load every layer the metadata pass listed, keep the ones
\* that loaded
LayersOfFile(f) ==
    LET kept == SelectSeq(LayerInfos(f), LAMBDA n : ~load_vector_layer(f, n).isNone)
    IN  [i \in 1..Len(kept) |-> load_vector_layer(f, kept[i]).layer]

\* load_geojson_layer's write to self._geojson_cache
CacheRawGeojson(gj, f) ==
    IF IsGeojson(f) /\ LayersOfFile(f) # <<>>
    THEN Put(gj, <<f, Stem(f)>>, RawGeojson(f))
    ELSE gj

RECURSIVE LoadFiles(_, _)
LoadFiles(fs, acc) ==
    IF fs = <<>> THEN acc
    ELSE LET f == Head(fs) IN
         LoadFiles(Tail(fs),
                   [layers |-> acc.layers \o LayersOfFile(f),
                    gj     |-> CacheRawGeojson(acc.gj, f),
                    mt     |-> [acc.mt EXCEPT ![f] = disk[f].stamp]])

\* the loader after load_all_vector_layers run with Tier B = gj
LoadAllResult(gj) ==
    LoadFiles(discover_gpkg_files, [layers |-> <<>>, gj |-> gj, mt |-> file_mtimes])

(***************************************************************************)
(* check_files_changed                                                     *)
(***************************************************************************)
TrackedFiles == {f \in Files : file_mtimes[f] # NoMtime}

CurrentFiles == {f \in Files : disk[f].exists}

\* a check that reports a change whatever the directory holds
AlwaysChanged == TRUE

check_files_changed ==
    \/ \E f \in CurrentFiles : file_mtimes[f] = NoMtime
    \/ \E f \in CurrentFiles : file_mtimes[f] # disk[f].stamp
    \/ TrackedFiles \ CurrentFiles # {}

(***************************************************************************)
(* _evict_cache_entries                                                    *)
(***************************************************************************)
\* the threshold off by one: evict only once Tier A is over its capacity
CacheIsFullLate(n) == n > MAX_CACHE_SIZE

\* len(self._gdf_cache) >= self.MAX_CACHE_SIZE
CacheIsFull(n) == n >= MAX_CACHE_SIZE

\* the loop popping from the other end: the last CACHE_EVICT_SIZE keys
NewestKeys(gdf) ==
    LET n == IF Len(gdf) < CACHE_EVICT_SIZE THEN Len(gdf) ELSE CACHE_EVICT_SIZE
    IN  {gdf[i].k : i \in (Len(gdf) - n + 1)..Len(gdf)}

\* the keys the loop pops: the first CACHE_EVICT_SIZE of Tier A, or all of it
EvictedKeys(gdf) ==
    LET n == IF Len(gdf) < CACHE_EVICT_SIZE THEN Len(gdf) ELSE CACHE_EVICT_SIZE
    IN  {gdf[i].k : i \in 1..n}

\* self._geojson_cache.pop(evicted_key, None), for every evicted key
PopEvictedGeojson(gj, evicted) == SelectSeq(gj, LAMBDA e : e.k \notin evicted)

EvictCacheEntries(gdf, gj) ==
    IF CacheIsFull(Len(gdf))
    THEN LET evicted == EvictedKeys(gdf) IN
         [gdf     |-> SelectSeq(gdf, LAMBDA e : e.k \notin evicted),
          gj      |-> PopEvictedGeojson(gj, evicted),
          evicted |-> evicted]
    ELSE [gdf |-> gdf, gj |-> gj, evicted |-> {}]

(***************************************************************************)
(* get_vector_layer_geojson(layer, simplify_tolerance).  Each branch gives *)
(* the caches after the call, the value returned (or raised), and the      *)
(* Tier-A keys evicted on the way.                                         *)
(***************************************************************************)
Outcome(gdf, gj, raised, val, evicted) ==
    [gdf |-> gdf, gj |-> gj, raised |-> raised, val |-> val, evicted |-> evicted]

\* lines 452-491: the .geojson fast path
GeojsonFastPath(layer, t) ==
    LET cache_key == CacheKey(layer) IN
    IF Has(geojson_cache, cache_key)
    THEN \* the cached dict itself gets the metadata block and is returned
         LET geojson == WithMetadata(Lookup(geojson_cache, cache_key), layer) IN
         Outcome(gdf_cache, Put(geojson_cache, cache_key, geojson), FALSE, geojson, {})
    ELSE IF ~disk[layer.file_path].exists
    THEN \* open(layer.file_path) raises
         Outcome(gdf_cache, geojson_cache, TRUE, NoValue, {})
    ELSE LET geojson == WithMetadata(ReadFile(layer.file_path), layer) IN
         Outcome(gdf_cache, Put(geojson_cache, cache_key, geojson), FALSE, geojson, {})

\* lines 541-546: store the serialization, then drop the oldest entry if over
StoreGeojson(gj, key, geojson) ==
    LET stored == Put(gj, key, geojson) IN
    IF Len(stored) > MAX_CACHE_SIZE THEN Tail(stored) ELSE stored

\* lines 516-539: copy of the Tier-A value, simplified if asked, serialized
Serialize(gdf, layer, t) ==
    LET wgs == EnsureWgs84(gdf) IN
    WithMetadata(IF WantsSimplify(t) THEN Simplify(wgs, t) ELSE wgs, layer)

\* a failed read that leaves an entry for the key in Tier A
ReadFailureCached(ev, cache_key) ==
    Outcome(Put(ev.gdf, cache_key, [data |-> 0, simplified |-> 0, crs |-> ""]), ev.gj,
            TRUE, NoValue, ev.evicted)

\* lines 510 and 550-552: gpd.read_file raises after the eviction has run, the
\* assignment to self._gdf_cache[cache_key] does not happen, the exception is
\* logged and raised again
ReadFailure(ev, cache_key) == Outcome(ev.gdf, ev.gj, TRUE, NoValue, ev.evicted)

\* lines 494-548: the .gpkg path
GpkgPath(layer, t) ==
    LET cache_key         == CacheKey(layer)
        geojson_cache_key == GeojsonCacheKey(layer, t)
    IN
    IF Has(geojson_cache, geojson_cache_key)
    THEN Outcome(gdf_cache, MoveToEnd(geojson_cache, geojson_cache_key), FALSE,
                 Lookup(geojson_cache, geojson_cache_key), {})
    ELSE IF ~Has(gdf_cache, cache_key)
    THEN LET ev == EvictCacheEntries(gdf_cache, geojson_cache) IN
         IF ~disk[layer.file_path].exists
         THEN ReadFailure(ev, cache_key)
         ELSE LET gdf     == ReadFile(layer.file_path)
                  geojson == Serialize(gdf, layer, t)
              IN  Outcome(Put(ev.gdf, cache_key, gdf),
                          StoreGeojson(ev.gj, geojson_cache_key, geojson),
                          FALSE, geojson, ev.evicted)
    ELSE LET gdf     == Lookup(gdf_cache, cache_key)
             geojson == Serialize(gdf, layer, t)
         IN  Outcome(MoveToEnd(gdf_cache, cache_key),
                     StoreGeojson(geojson_cache, geojson_cache_key, geojson),
                     FALSE, geojson, {})

GetOutcome(layer, t) ==
    IF IsGeojson(layer.file_path) THEN GeojsonFastPath(layer, t) ELSE GpkgPath(layer, t)

(***************************************************************************)
(* The state machine.                                                      *)
(***************************************************************************)
Return(op, layer, t, raised, flag, val, evicted) ==
    [op |-> op, layer |-> layer, tol |-> t, raised |-> raised, flag |-> flag,
     val |-> val, evicted |-> evicted]

\* what check_files_changed can see of the directory: the files present, each
\* with its stamp
DirView == [f \in Files |-> IF disk[f].exists THEN disk[f].stamp ELSE NoMtime]

\* the request order of the Tier-A keys after a call that used `key` and left
\* Tier A with the keys `kept`
Used(order, key, kept) ==
    LET rest == SelectSeq(order, LAMBDA k : k \in kept /\ k # key)
    IN  IF key \in kept THEN Append(rest, key) ELSE rest

\* what a catalogue call returned: the value, and what the call was given
Result(op, value, given) == [op |-> op, value |-> value, given |-> given]

NoResult == Result("init", <<>>, <<>>)

\* no reload_if_changed is running
Idle == [pc |-> "idle", pending |-> <<>>, before |-> <<>>]

\* the request threads of the server (run_flask.py:130, threaded=True)
Threads == {"t1", "t2"}

\* the thread is in no get_vector_layer_geojson call
NoRequest == [pc |-> "idle", layer |-> NoLayer, tol |-> None, evicted |-> {}]

\* a reload that keeps what the caches hold
NotCleared(od) == od

\* OrderedDict.clear()
Cleared(od) == <<>>

\* __init__ (lines 38-48); the vector directory exists or not, holds any
\* subset of the files, and the files hold one of `contents`
Start(contents, dirs) ==
    /\ vector_dir \in dirs
    /\ content \in contents
    /\ disk \in [Files -> {[exists |-> TRUE, stamp |-> 1], [exists |-> FALSE, stamp |-> 0]}]
    /\ \A f \in Files : disk[f].exists => vector_dir
    /\ diskOps = 0
    /\ loaded_layers = <<>>
    /\ gdf_cache = <<>>
    /\ geojson_cache = <<>>
    /\ file_mtimes = [f \in Files |-> NoMtime]
    /\ ret = Return("init", NoLayer, None, FALSE, FALSE, NoValue, {})
    /\ loadedDir = [by |-> "none", view |-> DirView]
    /\ reloadStamp = [f \in Files |-> 0]
    /\ lru = <<>>
    /\ out = NoResult
    /\ reloading = Idle
    /\ inflight = [th \in Threads |-> NoRequest]
    /\ reads = 0

\* the directory exists and every file in it is sound
Init == Start({Healthy}, {TRUE})

\* load_all_vector_layers (lines 380-422)
LoadAll ==
    LET r == LoadAllResult(geojson_cache) IN
    /\ loaded_layers' = r.layers
    /\ geojson_cache' = r.gj
    /\ file_mtimes' = r.mt
    /\ ret' = Return("load_all", NoLayer, None, FALSE, FALSE, NoValue, {})
    /\ loadedDir' = [by |-> "load_all", view |-> DirView]
    /\ UNCHANGED <<disk, diskOps, gdf_cache, reloadStamp, lru>>
    /\ UNCHANGED extras

\* get_vector_layer_geojson on a layer of the catalogue
Get(layer, t) ==
    LET o == GetOutcome(layer, t) IN
    /\ gdf_cache' = o.gdf
    /\ geojson_cache' = o.gj
    /\ ret' = Return("get", layer, t, o.raised, FALSE, o.val, o.evicted)
    /\ lru' = Used(lru, CacheKey(layer), Keys(o.gdf))
    /\ UNCHANGED <<disk, diskOps, loaded_layers, file_mtimes, loadedDir, reloadStamp>>
    /\ UNCHANGED extras

\* reload_if_changed (lines 615-630)
ReloadIfChanged ==
    IF check_files_changed
    THEN LET r == LoadAllResult(Cleared(geojson_cache)) IN
         /\ gdf_cache' = Cleared(gdf_cache)
         /\ loaded_layers' = r.layers
         /\ geojson_cache' = r.gj
         /\ file_mtimes' = r.mt
         /\ ret' = Return("reload", NoLayer, None, FALSE, TRUE, NoValue, {})
         /\ loadedDir' = [by |-> "reload", view |-> DirView]
         /\ reloadStamp' = [f \in Files |-> disk[f].stamp]
         /\ lru' = Used(lru, <<>>, Keys(Cleared(gdf_cache)))
         /\ UNCHANGED <<disk, diskOps>>
         /\ UNCHANGED extras
    ELSE /\ ret' = Return("reload", NoLayer, None, FALSE, FALSE, NoValue, {})
         /\ UNCHANGED <<disk, diskOps, loaded_layers, gdf_cache, geojson_cache,
                        file_mtimes, loadedDir, reloadStamp, lru>>
         /\ UNCHANGED extras

(***************************************************************************)
(* reload_if_changed as the thread running it goes through it: no lock is  *)
(* taken anywhere in the class, so other threads run between its           *)
(* statements.  The steps are the statements of lines 622-629 and of       *)
(* load_all_vector_layers, one file of the loop at a time.                 *)
(***************************************************************************)
\* lines 622-625: check_files_changed() is true, self._gdf_cache.clear()
ReloadBegin ==
    /\ reloading.pc = "idle"
    /\ check_files_changed
    /\ gdf_cache' = Cleared(gdf_cache)
    /\ lru' = Used(lru, <<>>, Keys(Cleared(gdf_cache)))
    /\ reloading' = [pc |-> "clear_geojson", pending |-> <<>>, before |-> loaded_layers]
    /\ UNCHANGED <<disk, diskOps, loaded_layers, geojson_cache, file_mtimes, ret,
                   loadedDir, reloadStamp, vector_dir, content, out, inflight, reads>>

\* line 626: self._geojson_cache.clear()
ReloadClearGeojson ==
    /\ reloading.pc = "clear_geojson"
    /\ geojson_cache' = Cleared(geojson_cache)
    /\ reloading' = [reloading EXCEPT !.pc = "load_clear"]
    /\ UNCHANGED <<disk, diskOps, loaded_layers, gdf_cache, file_mtimes, ret,
                   loadedDir, reloadStamp, lru, vector_dir, content, out, inflight, reads>>

\* lines 382-385: self.loaded_layers.clear(), then the discovery
ReloadClearLayers ==
    /\ reloading.pc = "load_clear"
    /\ loaded_layers' = <<>>
    /\ reloading' = [reloading EXCEPT !.pc = "load_files", !.pending = discover_gpkg_files]
    /\ UNCHANGED <<disk, diskOps, gdf_cache, geojson_cache, file_mtimes, ret,
                   loadedDir, reloadStamp, lru, vector_dir, content, out, inflight, reads>>

\* lines 391-419: one turn of the loop over the discovered files
ReloadLoadFile ==
    /\ reloading.pc = "load_files"
    /\ reloading.pending # <<>>
    /\ LET r == LoadFiles(<<Head(reloading.pending)>>,
                          [layers |-> loaded_layers, gj |-> geojson_cache, mt |-> file_mtimes])
       IN  /\ loaded_layers' = r.layers
           /\ geojson_cache' = r.gj
           /\ file_mtimes' = r.mt
    /\ reloading' = [reloading EXCEPT !.pending = Tail(@)]
    /\ UNCHANGED <<disk, diskOps, gdf_cache, ret, loadedDir, reloadStamp, lru,
                   vector_dir, content, out, inflight, reads>>

\* lines 421-422 and 629: load_all_vector_layers returns, reload_if_changed
\* returns True
ReloadEnd ==
    /\ reloading.pc = "load_files"
    /\ reloading.pending = <<>>
    /\ ret' = Return("reload", NoLayer, None, FALSE, TRUE, NoValue, {})
    /\ loadedDir' = [by |-> "reload", view |-> DirView]
    /\ reloadStamp' = [f \in Files |-> disk[f].stamp]
    /\ reloading' = Idle
    /\ UNCHANGED <<disk, diskOps, loaded_layers, gdf_cache, geojson_cache, file_mtimes,
                   lru, vector_dir, content, out, inflight, reads>>

\* asdict(layer) as it is
LayerWithPath(layer) == layer

\* asdict(layer) without the file_path entry (lines 570-572)
LayerSummary(layer) == [x \in DOMAIN layer \ {"file_path"} |-> layer[x]]

\* the summaries of a catalogue
Summaries(layers) == [i \in 1..Len(layers) |-> LayerSummary(layers[i])]

\* the catalogue around the reload that is running: as it was when the
\* reload began, and as the reload leaves it
AroundReload ==
    IF reloading.pc = "idle"
    THEN {loaded_layers}
    ELSE {reloading.before, LoadAllResult(Cleared(geojson_cache)).layers}

\* get_layers_summary (lines 566-574), called by a request thread
GetLayersSummary ==
    /\ out' = Result("get_layers_summary", Summaries(loaded_layers),
                     {Summaries(layers) : layers \in AroundReload})
    /\ UNCHANGED <<disk, diskOps, loaded_layers, gdf_cache, geojson_cache, file_mtimes,
                   ret, loadedDir, reloadStamp, lru, vector_dir, content, reloading, inflight, reads>>

(***************************************************************************)
(* get_vector_layer_geojson as a request thread goes through it.  A call   *)
(* that misses both tiers for a .gpkg layer runs _evict_cache_entries,     *)
(* then reads the file (the thread waits for the disk, other threads run), *)
(* then stores the GeoDataFrame and the serialization.  Every other call   *)
(* touches no file and is taken in one step.                               *)
(***************************************************************************)
MissesBothTiers(layer, t) ==
    /\ ~IsGeojson(layer.file_path)
    /\ ~Has(geojson_cache, GeojsonCacheKey(layer, t))
    /\ ~Has(gdf_cache, CacheKey(layer))

\* lines 494-507: both checks miss, self._evict_cache_entries()
GetBegin(th, layer, t) ==
    /\ inflight[th].pc = "idle"
    /\ reads < MaxReads
    /\ MissesBothTiers(layer, t)
    /\ LET ev == EvictCacheEntries(gdf_cache, geojson_cache) IN
       /\ gdf_cache' = ev.gdf
       /\ geojson_cache' = ev.gj
       /\ lru' = Used(lru, <<>>, Keys(ev.gdf))
       /\ inflight' = [inflight EXCEPT ![th] =
                          [pc |-> "read", layer |-> layer, tol |-> t, evicted |-> ev.evicted]]
    /\ reads' = reads + 1
    /\ UNCHANGED <<disk, diskOps, loaded_layers, file_mtimes, ret, loadedDir,
                   reloadStamp, vector_dir, content, out, reloading>>

\* lines 510-548: gpd.read_file has returned (or raised); store and serialize
GetFinish(th) ==
    LET layer == inflight[th].layer
        t     == inflight[th].tol
    IN
    /\ inflight[th].pc = "read"
    /\ IF ~disk[layer.file_path].exists
       THEN /\ ret' = Return("get", layer, t, TRUE, FALSE, NoValue, inflight[th].evicted)
            /\ UNCHANGED <<gdf_cache, geojson_cache, lru>>
       ELSE LET gdf     == ReadFile(layer.file_path)
                geojson == Serialize(gdf, layer, t)
            IN  /\ gdf_cache' = Put(gdf_cache, CacheKey(layer), gdf)
                /\ geojson_cache' = StoreGeojson(geojson_cache, GeojsonCacheKey(layer, t), geojson)
                /\ ret' = Return("get", layer, t, FALSE, FALSE, geojson, inflight[th].evicted)
                /\ lru' = Used(lru, CacheKey(layer), Keys(gdf_cache'))
    /\ inflight' = [inflight EXCEPT ![th] = NoRequest]
    /\ UNCHANGED <<disk, diskOps, loaded_layers, file_mtimes, loadedDir, reloadStamp,
                   vector_dir, content, out, reloading, reads>>

\* a call that reads no file
GetCached(th, layer, t) ==
    /\ inflight[th].pc = "idle"
    /\ ~MissesBothTiers(layer, t)
    /\ Get(layer, t)

\* the directory as a caller can tell it: there or not, and the files in it
Directory == [exists |-> vector_dir, files |-> DirView]

\* a call of discover_gpkg_files (lines 84-101); `again` tells that the call
\* before it was a discovery too and saw the same directory
DiscoverFiles ==
    /\ out' = Result("discover_gpkg_files", discover_gpkg_files,
                     [dir   |-> Directory,
                      again |-> out.op = "discover_gpkg_files" /\ out.given.dir = Directory])
    /\ UNCHANGED <<disk, diskOps, loaded_layers, gdf_cache, geojson_cache, file_mtimes,
                   ret, loadedDir, reloadStamp, lru, vector_dir, content, reloading,
                   inflight, reads>>

\* a direct call of load_vector_layer / load_geojson_layer
LoadVectorLayer(f, name) ==
    /\ out' = Result("load_vector_layer", load_vector_layer(f, name),
                     [file |-> f, layer_name |-> name])
    /\ UNCHANGED <<disk, diskOps, loaded_layers, gdf_cache, geojson_cache, file_mtimes,
                   ret, loadedDir, reloadStamp, lru, vector_dir, content, reloading,
                   inflight, reads>>

\* the display name load_vector_layer (line 300) and load_geojson_layer (line
\* 210) give the layer of a directory entry
DisplayNameOf(entry) == create_display_name(entry.stem, entry.layer_name)

\* the display names given to two layers of one loading session
NameLayers(e1, e2) ==
    /\ out' = Result("_create_display_name", <<DisplayNameOf(e1), DisplayNameOf(e2)>>,
                     <<e1, e2>>)
    /\ UNCHANGED <<disk, diskOps, loaded_layers, gdf_cache, geojson_cache, file_mtimes,
                   ret, loadedDir, reloadStamp, lru, vector_dir, content, reloading,
                   inflight, reads>>

(***************************************************************************)
(* create_bounds_summary (lines 632-649)                                   *)
(***************************************************************************)
\* min(...) and max(...) of a non-empty collection
MinOf(S) == CHOOSE x \in S : \A y \in S : x <= y

MaxOf(S) == CHOOSE x \in S : \A y \in S : x >= y

\* a summary that takes the box of the last layer for the union
LastBounds(all_bounds) == all_bounds[Len(all_bounds)]

\* lines 640-646: [min_x, min_y, max_x, max_y]
OverallBounds(all_bounds) ==
    LET I == 1..Len(all_bounds) IN
    <<MinOf({all_bounds[i][1] : i \in I}), MinOf({all_bounds[i][2] : i \in I}),
      MaxOf({all_bounds[i][3] : i \in I}), MaxOf({all_bounds[i][4] : i \in I})>>

\* line 647: [(min_x + max_x) / 2, (min_y + max_y) / 2]; the coordinates are
\* in halves of a degree, the midpoint is in degrees
Center(b) == <<(b[1] + b[3]) \div 2, (b[2] + b[4]) \div 2>>

\* a summary that reports a zero box for an empty catalogue
ZeroSummary == [overall_bounds |-> <<0, 0, 0, 0>>, center |-> <<0, 0>>, layer_count |-> 0]

\* line 635: return {}
EmptySummary == <<>>

create_bounds_summary ==
    IF loaded_layers = <<>>
    THEN EmptySummary
    ELSE LET all_bounds == [i \in 1..Len(loaded_layers) |-> loaded_layers[i].bounds]
             b          == OverallBounds(all_bounds)
         IN  [overall_bounds |-> b, center |-> Center(b),
              layer_count |-> Len(loaded_layers)]

CreateBoundsSummary ==
    /\ out' = Result("create_bounds_summary", create_bounds_summary, loaded_layers)
    /\ UNCHANGED <<disk, diskOps, loaded_layers, gdf_cache, geojson_cache, file_mtimes,
                   ret, loadedDir, reloadStamp, lru, vector_dir, content, reloading,
                   inflight, reads>>

\* the directory changes: a file is written, deleted or created
WriteFile(f) ==
    /\ diskOps < MaxDiskOps
    /\ disk[f].exists
    /\ disk' = [disk EXCEPT ![f].stamp = @ + 1]
    /\ diskOps' = diskOps + 1
    /\ UNCHANGED <<loader, vector_dir, content>>

DeleteFile(f) ==
    /\ diskOps < MaxDiskOps
    /\ disk[f].exists
    /\ disk' = [disk EXCEPT ![f].exists = FALSE]
    /\ diskOps' = diskOps + 1
    /\ UNCHANGED <<loader, vector_dir, content>>

CreateFile(f) ==
    /\ diskOps < MaxDiskOps
    /\ vector_dir
    /\ ~disk[f].exists
    /\ disk' = [disk EXCEPT ![f] = [exists |-> TRUE, stamp |-> @.stamp + 1]]
    /\ diskOps' = diskOps + 1
    /\ UNCHANGED <<loader, vector_dir, content>>

(***************************************************************************)
(* The endpoint /api/vector/layer/<path:layer_name> (app.py 609-635) and   *)
(* the lookup it goes through.                                             *)
(***************************************************************************)
\* f"{layer.source_file}/{layer.layer_name}" (line 561)
LayerId(layer) == <<layer.source_file, "/", layer.layer_name>>

\* get_layer_by_name found no layer (line 564)
NotFound == [isNone |-> TRUE, layer |-> NoLayer]

\* get_layer_by_name (lines 554-564): the first layer of the catalogue whose
\* display name or whose source_file/layer_name is the identifier
get_layer_by_name(layer_identifier) ==
    LET hits == SelectSeq(loaded_layers,
                          LAMBDA layer : \/ layer.display_name = layer_identifier
                                         \/ LayerId(layer) = layer_identifier)
    IN  IF hits = <<>> THEN NotFound ELSE [isNone |-> FALSE, layer |-> hits[1]]

\* the status codes of the endpoint
Ok == 200

NotFoundStatus == 404

InternalError == 500

ServiceUnavailable == 503

\* what the endpoint answers: the status, whether the except branch answered,
\* and the GeoJSON of a 200
Response(status, raised, geojson) ==
    [status |-> status, raised |-> raised, geojson |-> geojson]

\* app.py 618-619: the display names of the loaded layers
ValidLayerNames == {loaded_layers[i].display_name : i \in 1..Len(loaded_layers)}

\* api_vector_layer_geojson (app.py 609-635) with VECTOR_SUPPORT = support and
\* ?simplify = simplify
ApiVectorLayerGeojson(support, layer_name, simplify) ==
    LET found == get_layer_by_name(layer_name)
        given == [support |-> support, layer_name |-> layer_name, simplify |-> simplify,
                  resolved |-> found]
        o     == GetOutcome(found.layer, simplify)
        answered(status) ==
            /\ out' = Result("api_vector_layer_geojson", Response(status, FALSE, NoValue), given)
            /\ UNCHANGED <<gdf_cache, geojson_cache, ret, lru>>
    IN
    /\ IF ~support
       THEN answered(ServiceUnavailable)
       ELSE IF loaded_layers # <<>> /\ layer_name \notin ValidLayerNames
       THEN answered(NotFoundStatus)
       ELSE IF found.isNone
       THEN answered(NotFoundStatus)
       ELSE /\ gdf_cache' = o.gdf
            /\ geojson_cache' = o.gj
            /\ ret' = Return("get", found.layer, simplify, o.raised, FALSE, o.val, o.evicted)
            /\ lru' = Used(lru, CacheKey(found.layer), Keys(o.gdf))
            /\ out' = Result("api_vector_layer_geojson",
                             Response(IF o.raised THEN InternalError ELSE Ok, o.raised, o.val),
                             given)
    /\ UNCHANGED <<disk, diskOps, loaded_layers, file_mtimes, loadedDir, reloadStamp,
                   vector_dir, content, reloading, inflight, reads>>

LoadedLayers == {loaded_layers[i] : i \in 1..Len(loaded_layers)}

\* one call of a client of the loader, the clients asking for the layers named
\* in `names` with the tolerances in `tols`
ClientStep(names, tols) ==
    \/ LoadAll
    \/ \E layer \in LoadedLayers, t \in tols :
          layer.layer_name \in names /\ Get(layer, t)
    \/ ReloadIfChanged

\* one change of the vector directory
DiskStep ==
    \/ \E f \in Files : WriteFile(f)
    \/ \E f \in Files : DeleteFile(f)
    \/ \E f \in Files : CreateFile(f)

AllLayerNames == UNION {{LayerNames(f)[i] : i \in 1..Len(LayerNames(f))} : f \in Files}

FirstLayerNames == {LayerNames(f)[1] : f \in Files}

\* every layer is requested, always with the default tolerance (None), and the
\* directory stays as it was found
NextCache == ClientStep(AllLayerNames, {None})

SpecCache == Init /\ [][NextCache]_vars

\* one layer of each file format is requested, with every tolerance, while
\* the directory changes
NextSimplify == ClientStep(FirstLayerNames, Tolerances) \/ DiskStep

SpecSimplify == Init /\ [][NextSimplify]_vars

\* one step of the thread that runs reload_if_changed
ReloadStep ==
    \/ ReloadBegin
    \/ ReloadClearGeojson
    \/ ReloadClearLayers
    \/ ReloadLoadFile
    \/ ReloadEnd

\* one thread reloads, step by step, while another reads the catalogue and
\* the directory changes between the reloads
NextReload ==
    \/ ReloadStep
    \/ GetLayersSummary
    \/ reloading.pc = "idle" /\ DiskStep

SpecReload == Init /\ [][NextReload]_vars

\* every layer holds one of the boxes or cannot be opened
BoxContents ==
    LET choices == [state : {"ok"}, box : Boxes]
                     \cup {[state |-> "corrupt", box |-> <<0, 0, 0, 0>>]}
    IN  {[f \in Files |-> [Healthy[f] EXCEPT !.layers = [n \in NamesOf(f) |-> pick[n]]]]
            : pick \in [AllLayerNames -> choices]}

InitBounds == Start(BoxContents, {TRUE})

\* the catalogue is loaded, reloaded and summarized, over files whose layers
\* have any of the boxes
NextBounds ==
    \/ LoadAll
    \/ ReloadIfChanged
    \/ CreateBoundsSummary

SpecBounds == InitBounds /\ [][NextBounds]_vars

\* the vector directory exists or not
InitDiscover == Start({Healthy}, BOOLEAN)

\* discoveries between loads, reloads and changes of the directory
NextDiscover ==
    \/ DiscoverFiles
    \/ LoadAll
    \/ ReloadIfChanged
    \/ DiskStep

SpecDiscover == InitDiscover /\ [][NextDiscover]_vars

\* the layers whose state varies
FaultyLayerNames == {"l1", "l2", "g"}

\* every file opens or not, and the first layers of the container and the
\* GeoJSON document are in any state
FaultyContents ==
    {[f \in Files |->
        [opens |-> o[f], crs |-> WGS84,
         layers |-> [n \in NamesOf(f) |->
                       [state |-> IF n \in FaultyLayerNames THEN st[n] ELSE "ok",
                        box   |-> DefaultBox(n)]]]]
        : o \in [Files -> BOOLEAN], st \in [FaultyLayerNames -> LayerStates]}

InitFaults == Start(FaultyContents, {TRUE})

\* loads, reloads and direct loads of single layers over files that may not
\* open and layers that may not be readable
NextFaults ==
    \/ LoadAll
    \/ ReloadIfChanged
    \/ \E f \in Files : \E n \in NamesOf(f) : LoadVectorLayer(f, n)

SpecFaults == InitFaults /\ [][NextFaults]_vars

\* every file declares any of the CRSs, or none
CrsContents ==
    {[f \in Files |-> [Healthy[f] EXCEPT !.crs = declared[f]]] : declared \in [Files -> Crs]}

InitCrs == Start(CrsContents, {TRUE})

\* one layer of each file format is loaded, reloaded and requested, with the
\* default tolerance, from files that declare any CRS, while the directory
\* changes
NextCrs == ClientStep(FirstLayerNames, {None}) \/ DiskStep

SpecCrs == InitCrs /\ [][NextCrs]_vars

\* texts a file stem or a layer name can be
NameTexts == {<<"a">>, <<"A">>, <<"a", "_", "b">>, <<"a", " ", "b">>}

\* the layers a vector directory can hold: any layer of a container, and the
\* one layer of a GeoJSON file, named after the file's stem (line 138)
Entries ==
    [stem : NameTexts, ext : {".gpkg"}, layer_name : NameTexts]
      \cup {[stem |-> t, ext |-> ".geojson", layer_name |-> t] : t \in NameTexts}

\* the layers of a directory are named, two at a time, next to the loads
NextNames ==
    \/ LoadAll
    \/ \E e1 \in Entries, e2 \in Entries : e1 # e2 /\ NameLayers(e1, e2)

SpecNames == Init /\ [][NextNames]_vars

\* the tolerances that ask for no simplification: None, zero, a negative number
NoSimplification == {None, Num(0), Num(-1)}

\* one layer of each file format is requested with every tolerance that asks
\* for no simplification, while the directory changes
NextTolerance == ClientStep(FirstLayerNames, NoSimplification) \/ DiskStep

SpecTolerance == Init /\ [][NextTolerance]_vars

\* the identifiers a client asks the endpoint for: the display name and the
\* source_file/layer_name of the first layer of each file, and a name of no layer
Identifiers ==
    UNION {{create_display_name(Spell(Stem(f)), Spell(LayerNames(f)[1])),
            <<f, "/", LayerNames(f)[1]>>} : f \in Files}
    \cup {<<"b">>}

\* the endpoint is asked for every identifier, with and without vector
\* support, while the catalogue is loaded and reloaded and the directory changes
NextApi ==
    \/ LoadAll
    \/ ReloadIfChanged
    \/ \E support \in BOOLEAN, layer_name \in Identifiers :
          ApiVectorLayerGeojson(support, layer_name, None)
    \/ DiskStep

SpecApi == Init /\ [][NextApi]_vars

GpkgLayerNames == {LayerNames(f)[i] : f \in GpkgFiles, i \in 1..NumGpkgLayers}

\* the request threads ask for the layers of the container, with the default
\* tolerance, at the same time
NextThreads ==
    \/ LoadAll
    \/ \E th \in Threads, layer \in LoadedLayers :
          layer.layer_name \in GpkgLayerNames /\ GetBegin(th, layer, None)
    \/ \E th \in Threads : GetFinish(th)
    \/ \E th \in Threads, layer \in LoadedLayers :
          layer.layer_name \in GpkgLayerNames /\ GetCached(th, layer, None)

SpecThreads == Init /\ [][NextThreads]_vars

(***************************************************************************)
(* Properties.                                                             *)
(***************************************************************************)
TierA == Keys(gdf_cache)

TierB == Keys(geojson_cache)

GotValue == ret.op = "get" /\ ~ret.raised

\* C1 Cache coherency: in every reachable state, every key of Tier B has its
\* source_path+layer_name key in Tier A.
C1_CacheCoherency == \A key \in TierB : KeyPrefix(key) \in TierA

\* C2 Tier-A eviction bound: Tier A never holds more than MAX_CACHE_SIZE
\* entries.
C2_TierABound == Len(gdf_cache) <= MAX_CACHE_SIZE

\* a load into a full Tier A has evicted a batch and stored the new layer
C2_Witness ==
    /\ GotValue
    /\ ret.evicted # {}
    /\ CacheKey(ret.layer) \in TierA
    /\ Len(gdf_cache) = MAX_CACHE_SIZE - CACHE_EVICT_SIZE + 1

\* C3 Tier-B size bound: Tier B never holds more than MAX_CACHE_SIZE entries,
\* whichever file formats back the layers.
C3_TierBBound == Len(geojson_cache) <= MAX_CACHE_SIZE

\* C4 LRU correctness: when Tier A holds MAX_CACHE_SIZE layers loaded in
\* order, the first of them has just been requested again, and a layer that is
\* not in Tier A is requested next, then the first layer stays in Tier A and
\* the entries evicted are the least recently used of the others.
C4_LruCorrectness ==
    [][\A layer \in LoadedLayers :
          LET first  == gdf_cache[1].k
              others == Tail([i \in 1..Len(gdf_cache) |-> gdf_cache[i].k])
          IN  ( /\ Len(gdf_cache) = MAX_CACHE_SIZE
                /\ GotValue
                /\ CacheKey(ret.layer) = first
                /\ lru = Append(others, first)
                /\ CacheKey(layer) \notin TierA
                /\ Get(layer, None)
                /\ ~ret'.raised )
              => ( /\ first \in Keys(gdf_cache')
                   /\ ret'.evicted # {}
                   /\ \E n \in 1..Len(others) :
                         ret'.evicted = {others[i] : i \in 1..n} )
      ]_vars

\* C5 Eviction cascades: whenever _evict_cache_entries, called by a request
\* that misses both tiers, removes a key from Tier A, Tier B holds no entry
\* for that key (under any tolerance) when it returns.
C5_EvictionCascades ==
    \A layer \in LoadedLayers, t \in Tolerances :
        ( /\ ~IsGeojson(layer.file_path)
          /\ GeojsonCacheKey(layer, t) \notin TierB
          /\ CacheKey(layer) \notin TierA )
        => LET ev == EvictCacheEntries(gdf_cache, geojson_cache)
           IN  \A key \in Keys(ev.gj) : KeyPrefix(key) \notin ev.evicted

\* C6 Simplify is non-destructive: a request with tolerance 0.01 followed by
\* a request with tolerance None for the same layer leaves two distinct
\* Tier-B entries for the layer, and the layer's Tier-A value is the
\* unsimplified data it was before the second request.
C6_SimplifyNonDestructive ==
    [][\A layer \in LoadedLayers :
          ( /\ GotValue
            /\ ret.layer = layer
            /\ ret.tol = Num(1)
            /\ Get(layer, None)
            /\ ~ret'.raised )
          => ( /\ Cardinality({key \in Keys(geojson_cache') :
                                   KeyPrefix(key) = CacheKey(layer)}) >= 2
               /\ CacheKey(layer) \in TierA =>
                     /\ CacheKey(layer) \in Keys(gdf_cache')
                     /\ Lookup(gdf_cache', CacheKey(layer)) = Lookup(gdf_cache, CacheKey(layer))
                     /\ Lookup(gdf_cache', CacheKey(layer)).simplified = 0 )
      ]_vars

\* C7 A request with a positive tolerance returns geometries simplified with
\* that tolerance, whichever file format backs the layer.
C7_PositiveToleranceSimplifies ==
    (GotValue /\ WantsSimplify(ret.tol)) => ret.val.simplified = ret.tol.val

\* the directory differs from what the last load saw: a file was added, a
\* file was deleted, or a file's modification time changed
ChangedSinceLoad == DirView # loadedDir.view

\* C8 Change detection: after a load_all_vector_layers, check_files_changed
\* is true exactly when a file was added, deleted or modified since that load.
C8_ChangeDetection ==
    loadedDir.by # "none" => (check_files_changed <=> ChangedSinceLoad)

\* C9 Reload brings the watermarks up to date: once reload_if_changed has
\* reloaded, and as long as the directory is not changed again,
\* check_files_changed (and with it reload_if_changed) returns false.
C9_ReloadUpToDate ==
    (loadedDir.by = "reload" /\ ~ChangedSinceLoad) => ~check_files_changed

\* a value holds content read at or after the last reload
Fresh(v, f) == v.data >= reloadStamp[f]

\* C10 Reload invalidates the caches: after reload_if_changed has reloaded,
\* no entry of either tier holds content read before the reload, and every
\* value a request returns holds content read at or after it.
C10_ReloadInvalidates ==
    /\ GotValue => Fresh(ret.val, ret.layer.file_path)
    /\ \A i \in 1..Len(gdf_cache) : Fresh(gdf_cache[i].v, gdf_cache[i].k[1])
    /\ \A i \in 1..Len(geojson_cache) : Fresh(geojson_cache[i].v, geojson_cache[i].k[1])

\* a request answered after a reload that followed a change of the layer's file
C10_Witness ==
    /\ GotValue
    /\ reloadStamp[ret.layer.file_path] > 1
    /\ ret.val.data = reloadStamp[ret.layer.file_path]

\* C11 Reload is atomic for readers: a catalogue read made by one thread
\* while another thread runs reload_if_changed returns the catalogue as it
\* was before the reload or as the reload leaves it, never one emptied or
\* partly refilled.
C11_ReloadAtomicForReaders ==
    out.op = "get_layers_summary" => out.value \in out.given

\* C12 Concurrent callers of get_vector_layer_geojson run check-then-insert,
\* promote and evict under mutual exclusion, so that under every interleaving
\* of the request threads Tier A holds at most MAX_CACHE_SIZE entries (the
\* first of the two consequences the claim names; the second is C1 with
\* threads).
C12_SerializedCacheUpdates == Cardinality(TierA) <= MAX_CACHE_SIZE

\* C13 create_bounds_summary over a catalogue of at least one layer returns
\* overall_bounds = (least minX, least minY, greatest maxX, greatest maxY) of
\* the layers' boxes, center = the midpoint of that box, and layer_count = the
\* number of layers.
C13_BoundsSummary ==
    (out.op = "create_bounds_summary" /\ out.given # <<>>) =>
        LET b == out.value.overall_bounds
            L == out.given
            I == 1..Len(L)
        IN  /\ \A i \in I : /\ b[1] <= L[i].bounds[1]
                            /\ b[2] <= L[i].bounds[2]
                            /\ b[3] >= L[i].bounds[3]
                            /\ b[4] >= L[i].bounds[4]
            /\ \A x \in 1..4 : \E i \in I : b[x] = L[i].bounds[x]
            /\ 2 * out.value.center[1] = b[1] + b[3]
            /\ 2 * out.value.center[2] = b[2] + b[4]
            /\ out.value.layer_count = Len(L)

\* the boxes (0,0,1,1), (2,2,3,3), (-1,-1,0,0) give (-1,-1,3,3), center (1,1),
\* count 3 (the boxes in halves of a degree)
C13_Witness ==
    /\ out.op = "create_bounds_summary"
    /\ [i \in 1..Len(out.given) |-> out.given[i].bounds]
          = <<<<0, 0, 2, 2>>, <<4, 4, 6, 6>>, <<-2, -2, 0, 0>>>>
    /\ out.value = [overall_bounds |-> <<-2, -2, 6, 6>>, center |-> <<2, 2>>,
                    layer_count |-> 3]

\* C14 create_bounds_summary returns the empty result whenever the catalogue
\* is empty (before the first load, after a load or reload that found no
\* loadable layer), never a zero box.
C14_EmptyCatalogueSummary ==
    (out.op = "create_bounds_summary" /\ out.given = <<>>) => DOMAIN out.value = {}

\* the summary of a catalogue that a reload left empty although the
\* directory holds a file
C14_Witness ==
    /\ out.op = "create_bounds_summary"
    /\ out.given = <<>>
    /\ DOMAIN out.value = {}
    /\ loadedDir.by = "reload"
    /\ CurrentFiles # {}

\* the files of a list, as a set
FileSet(files) == {files[i] : i \in 1..Len(files)}

\* C15 Idempotent discovery: a call of discover_gpkg_files that follows
\* another one on an unchanged directory returns the same set of files,
\* whatever the loader did in between; a discovery changes nothing in the
\* loader; and a missing or empty directory gives the empty list.
C15_IdempotentDiscovery ==
    [][DiscoverFiles =>
          /\ UNCHANGED <<loaded_layers, gdf_cache, geojson_cache, file_mtimes>>
          /\ (out.op = "discover_gpkg_files" /\ out.given.dir = Directory)
                => FileSet(out'.value) = FileSet(out.value)
          /\ FileSet(out'.value) = CurrentFiles
          /\ (~vector_dir \/ CurrentFiles = {}) => out'.value = <<>>
      ]_vars

\* a second discovery on the unchanged directory of a loader that has loaded
\* the files in it
C15_Witness ==
    /\ out.op = "discover_gpkg_files"
    /\ out.given.again
    /\ out.value # <<>>
    /\ TrackedFiles = CurrentFiles

\* the file opens and the layer is sound
Sound(f, name) == content[f].opens /\ content[f].layers[name].state = "ok"

\* C16 Partial corruption is skipped: after a load, every sound layer of
\* every file of the directory that opens is in loaded_layers, whatever
\* metadata extraction or loading did on the other layers of its file.
C16_PartialCorruptionSkipped ==
    loadedDir.by # "none" =>
        \A f \in CurrentFiles : \A n \in NamesOf(f) :
            Sound(f, n) => \E layer \in LoadedLayers :
                              layer.file_path = f /\ layer.layer_name = n

\* a load of a container one layer of which cannot be opened and another of
\* which cannot be read, next to a sound GeoJSON file
C16_Witness ==
    /\ loadedDir.by = "load_all"
    /\ CurrentFiles = Files
    /\ \A f \in Files : content[f].opens
    /\ content["a.gpkg"].layers["l1"].state = "corrupt"
    /\ content["a.gpkg"].layers["l2"].state = "unreadable"
    /\ {layer.layer_name : layer \in LoadedLayers}
          = (AllLayerNames \ {"l1", "l2"})

\* C17 Total file unreadable: when a file of the directory cannot be opened
\* at all, the caller of load_all_vector_layers gets an explicit failure
\* signal.
C17_UnreadableFileSignalled ==
    [][(LoadAll /\ \E f \in CurrentFiles : ~content[f].opens) => ret'.raised]_vars

\* C18 load_vector_layer returns None without raising when the layer has no
\* feature, and raises when the file or the layer cannot be read.
C18_LoadFailureRaises ==
    out.op = "load_vector_layer" =>
        LET f == out.given.file
            n == out.given.layer_name
        IN  /\ (HasData(f, n) /\ content[f].layers[n].state = "empty")
                  => (out.value.isNone /\ ~out.value.raised)
            /\ ~HasData(f, n) => out.value.raised

\* C19 Every VectorLayer in loaded_layers has crs = "EPSG:4326", after any
\* sequence of loads and reloads and whatever CRS its file declares, or none.
C19_DescriptorCrsNormalized == \A layer \in LoadedLayers : layer.crs = WGS84

\* a reload has loaded a layer from a file that declares another CRS and one
\* from a file that declares none
C19_Witness ==
    /\ loadedDir.by = "reload"
    /\ \E layer \in LoadedLayers : content[layer.file_path].crs = "EPSG:3857"
    /\ \E layer \in LoadedLayers : content[layer.file_path].crs = "none"

\* C20 Whenever a file of either format declares a CRS other than EPSG:4326,
\* the bounds of its descriptors are the reprojected ones, and every value
\* get_vector_layer_geojson returns for its layers, on a miss and on a hit,
\* has its geometries in EPSG:4326.
C20_Reprojected ==
    /\ \A layer \in LoadedLayers :
          LET f == layer.file_path IN
          NeedsReprojection(content[f].crs) =>
              layer.bounds = ToWgs84(content[f].layers[layer.layer_name].box, content[f].crs)
    /\ (GotValue /\ NeedsReprojection(content[ret.layer.file_path].crs))
          => ret.val.crs = WGS84

\* C21 After a load, no two entries of loaded_layers have the same
\* display_name: the display names _create_display_name builds for two
\* different layers of one loading session are different.
C21_DisplayNamesUnique ==
    /\ \A i \in 1..Len(loaded_layers), j \in 1..Len(loaded_layers) :
          i # j => loaded_layers[i].display_name # loaded_layers[j].display_name
    /\ out.op = "_create_display_name" => out.value[1] # out.value[2]

\* the fields of a summary entry
SummaryFields ==
    {"layer_name", "display_name", "geometry_type", "feature_count", "bounds", "crs",
     "source_file", "style"}

C23_EndpointStatus ==
    out.op = "api_vector_layer_geojson" =>
        LET given == out.given
            response == out.value
        IN  /\ ~given.support => response.status = ServiceUnavailable
            /\ given.support /\ given.resolved.isNone => response.status = NotFoundStatus
            /\ given.support /\ ~given.resolved.isNone =>
                  /\ response.status = (IF response.raised THEN InternalError ELSE Ok)
                  /\ response.status = Ok =>
                        response.geojson.metadata.layer_name = given.resolved.layer.layer_name

\* C24 Every value get_vector_layer_geojson returns, on a miss and on every
\* kind of hit, carries a metadata block whose layer_name, display_name,
\* geometry_type, feature_count, bounds, source_file and style are those of
\* the layer passed in the call.
C24_MetadataOfPassedLayer ==
    GotValue => ret.val.metadata = Metadata(ret.layer)

C26_OneUnsimplifiedEntry ==
    /\ GotValue /\ ret.tol \in NoSimplification => ret.val.simplified = 0
    /\ \A k1 \in TierB, k2 \in TierB :
          /\ KeyPrefix(k1) = KeyPrefix(k2)
          /\ Lookup(geojson_cache, k1).simplified = 0
          /\ Lookup(geojson_cache, k2).simplified = 0
          => k1 = k2

\* C27 reload_if_changed on a directory that shows no change (every file
\* present is tracked with its current modification time and no tracked file
\* is gone) returns False and leaves loaded_layers, Tier A, Tier B (contents
\* and order) and the file watermarks as they were.
C27_QuietReloadChangesNothing ==
    [][ReloadIfChanged /\ file_mtimes = DirView =>
          /\ ret'.op = "reload"
          /\ ret'.flag = FALSE
          /\ UNCHANGED <<loaded_layers, gdf_cache, geojson_cache, file_mtimes>>
      ]_vars

\* a reload_if_changed that returned False over a catalogue and two filled tiers
C27_Witness ==
    /\ ret.op = "reload"
    /\ ~ret.flag
    /\ loaded_layers # <<>>
    /\ gdf_cache # <<>>
    /\ geojson_cache # <<>>
    /\ file_mtimes = DirView

\* C28 Every cache hit promotes the entry to the most-recent position of its
\* tier: after a Tier-B hit, for a layer of either file format, the entry is
\* the last of Tier B, and after a Tier-A hit the entry is the last of Tier A.
C28_HitsPromote ==
    [][\A layer \in LoadedLayers, t \in Tolerances :
          Get(layer, t) =>
              LET key   == CacheKey(layer)
                  b_key == IF IsGeojson(layer.file_path) THEN key ELSE GeojsonCacheKey(layer, t)
              IN  /\ Has(geojson_cache, b_key) =>
                        geojson_cache'[Len(geojson_cache')].k = b_key
                  /\ (~IsGeojson(layer.file_path) /\ ~Has(geojson_cache, b_key)
                        /\ Has(gdf_cache, key)) =>
                        gdf_cache'[Len(gdf_cache')].k = key
      ]_vars

\* C29 In every value get_vector_layer_geojson returns, metadata.feature_count
\* is the number of features of the returned collection, whatever loads,
\* file changes, requests and reloads came before.
C29_FeatureCountMatchesData ==
    GotValue => ret.val.metadata.feature_count = FeatureCount(ret.val.data)

\* C30 When the read of the file fails on a Tier-A miss, the exception reaches
\* the caller and no entry for the layer is added to Tier A or Tier B; the
\* next call for the same layer, once the file can be read, reads it again
\* and returns its current content.
C30_FailedReadNotCached ==
    [][\A layer \in LoadedLayers, t \in Tolerances :
          Get(layer, t) /\ MissesBothTiers(layer, t) =>
              IF disk[layer.file_path].exists
              THEN /\ ~ret'.raised
                   /\ ret'.val.data = disk[layer.file_path].stamp
                   /\ Has(gdf_cache', CacheKey(layer))
              ELSE /\ ret'.raised
                   /\ ~Has(gdf_cache', CacheKey(layer))
                   /\ Keys(geojson_cache') \subseteq Keys(geojson_cache)
                   /\ MissesBothTiers(layer, t)'
      ]_vars

\* the read has failed, nothing is cached for the layer, and the file is
\* back: the next call for the layer is a Tier-A miss that reads it
C30_Witness ==
    /\ ret.op = "get"
    /\ ret.raised
    /\ ret.layer \in LoadedLayers
    /\ MissesBothTiers(ret.layer, ret.tol)
    /\ disk[ret.layer.file_path].exists

====
